---------------------------- MODULE Spec2Model ----------------------------
(***************************************************************************)
(* Model of the sump monitor daemon (src/main.cpp): the fixed-period       *)
(* control loop of main(), State::update, State::send_state and            *)
(* State::check_for_clients, together with the environment they react to   *)
(* (the float switch, the monotonic clock, TCP peers and SIGINT/SIGTERM).  *)
(*                                                                         *)
(* The single thread of control is followed by pc.  One tick is the        *)
(* sequence  loop -> sleep -> update -> [broadcast] -> service -> [push]   *)
(* -> [hold] -> loop; the steps are cut at the system calls whose outcome  *)
(* the environment decides.                                                *)
(*                                                                         *)
(* The program looks at the network only in broadcast, service and push.   *)
(* Network events are therefore taken while the thread is about to sleep,  *)
(* to service or to push: an event at any other position has the effect of *)
(* the same event at the next of these.  Likewise a close or bytes sent    *)
(* while a connection still waits in the accept queue are seen only after  *)
(* accept() and are taken right after it.  Signals arrive at any position. *)
(*                                                                         *)
(* Descriptors are modelled by connection identities 1..MaxConns, which    *)
(* are never reused.  Time values are naturals below 2^31.                 *)
(***************************************************************************)
EXTENDS Integers, Sequences, FiniteSets

(* ------------------------------ bounds -------------------------------- *)

\* number of ticks the loop may start
MaxTicks == 2
\* number of TCP connections the environment may open
MaxConns == 2
\* largest lateness (ms) of a return from clock_nanosleep
MaxJitter == 29

(* ------------------------- program constants -------------------------- *)

\* timebase += 50
Period == 50
\* sleep_until(stamp + 20)
HoldTime == 20
\* listen(s, 1)
Backlog == 1

Conns == 1..MaxConns
\* values get_time() may return at start-up
InitialTimes == {0, 950}
Jitters == {0, MaxJitter}

VARIABLES
    pc,           \* position of main()'s thread
    done,         \* static bool done
    timebase,     \* main's local timebase (the current deadline / stamp)
    now,          \* CLOCK_MONOTONIC in ms
    last_stamp,   \* State::last_stamp
    last_value,   \* State::last_value
    s_listen,     \* State::s_listen: "none", "open" or "closed"
    s_client,     \* State::s_client: -1 or a connection
    h_gpio,       \* State::h_gpio: "none", "open" or "closed"
    led_client,   \* last level written by set_client
    led_activity, \* last level written by set_activity
    current,      \* update's local `current`
    backlog,      \* accept queue of the listening socket
    conn,         \* server side: "unborn", "pending", "accepted", "closed"
    peer,         \* client side: "open", "shut_early" or "shut"
    peer_data,    \* whether the client has sent bytes (never consumed)
    sends,        \* history: every send() call, in order
    tick,         \* history: number of ticks started
    t0,           \* history: the value get_time() returned
    quiet,        \* history: this tick's reading equalled the recorded one
    half_closed,  \* history: the occupant that the latest check_for_clients
                  \* met closed by its peer with no bytes queued, or -1
    ns_result,    \* sleep_until's local `result`: what the latest
                  \* clock_nanosleep call returned
    err_lines,    \* number of LOG_ERR lines written
    exit_status   \* process exit status, -1 while running

vars == <<pc, done, timebase, now, last_stamp, last_value, s_listen,
          s_client, h_gpio, led_client, led_activity, current, backlog,
          conn, peer, peer_data, sends, tick, t0, quiet, half_closed,
          ns_result, err_lines, exit_status>>

(* --------------------------- pure functions --------------------------- *)

RECURSIVE Shr(_, _)
\* x >> n on an unsigned value
Shr(x, n) == IF n = 0 THEN x ELSE Shr(x \div 2, n - 1)

\* conversion to uint8_t
U8(x) == x % 256

\* a frame whose timestamp bytes are never filled in
EncodeNoStamp(stamp, value) ==
    << 0, 0, 0, 0, 0, 0, 0, 0, 0, 0, 0, IF value THEN 1 ELSE 0 >>

\* a frame with the timestamp in little-endian order
EncodeLittleEndian(stamp, value) ==
    << U8(stamp), U8(Shr(stamp, 8)), U8(Shr(stamp, 16)),
       U8(Shr(stamp, 24)), U8(Shr(stamp, 32)), U8(Shr(stamp, 40)),
       U8(Shr(stamp, 48)), U8(Shr(stamp, 56)),
       0, 0, 0, IF value THEN 1 ELSE 0 >>

\* buf[0..11] as filled in by send_state
Encode(stamp, value) ==
    << U8(Shr(stamp, 56)), U8(Shr(stamp, 48)), U8(Shr(stamp, 40)),
       U8(Shr(stamp, 32)), U8(Shr(stamp, 24)), U8(Shr(stamp, 16)),
       U8(Shr(stamp, 8)), U8(stamp),
       0, 0, 0, IF value THEN 1 ELSE 0 >>

\* the bootstrap reading is not treated as a transition
TransitionValueOnly(lv, ls, cur) == lv # cur

\* every reading is treated as a transition
TransitionAlways(lv, ls, cur) == TRUE

\* if (last_value != current || !last_stamp)
Transition(lv, ls, cur) == lv # cur \/ ls = 0

\* the stamp is squeezed through a uint8_t
Stamp8(stamp) == stamp % 256

\* last_stamp = stamp
StampRecorded(stamp) == stamp

\* the deadline is chained from the current time
NextDeadlineFromNow(tb) == now + Period

\* timebase += 50
NextDeadline(tb) == tb + Period

\* the test of the stamp is inverted
CanSendInverted(sc, ls) == sc # -1 /\ ls = 0

\* if (s_client != -1 && last_stamp != 0)
CanSend(sc, ls) == sc # -1 /\ ls # 0

\* the slot is left alone after a failed send
SlotAfterSendKeep(sc, ok) == sc

\* s_client after send(): unchanged, or -1 when send() != sizeof(buf)
SlotAfterSend(sc, ok) == IF ok THEN sc ELSE -1

\* the first client keeps the slot
OccupantFirstWins(old, s) == IF old # -1 THEN old ELSE s

\* s_client = s
Occupant(old, s) == s

\* poll() > 0: the peer closed or sent bytes
Readable(c) == peer[c] # "open" \/ peer_data[c]

\* end-of-stream is never recognised
PeekSeesCloseNever(c) == FALSE

\* recv(MSG_PEEK) == 0: end of stream and no bytes queued
PeekSeesClose(c) == Readable(c) /\ peer[c] # "open" /\ ~peer_data[c]

\* create_listener(): socket() fails; a later call fails and the catch block
\* closes the socket; or the listener is up
ListenerOutcomes == {"no_socket", "setup_failed", "listening"}

\* the listening socket when the constructor has thrown: never opened,
\* closed by create_listener's catch block, or, when open_gpio() threw
\* after create_listener() returned, still open
ListenerAfterThrow(listener) ==
    CASE listener = "no_socket" -> "none"
      [] listener = "setup_failed" -> "closed"
      [] listener = "listening" -> "open"

\* the transition is recorded but not sent
AfterDetectNoBroadcast(tr) == "service"

\* update after the transition test: send_state() first on a transition,
\* check_for_clients() directly otherwise
AfterDetect(tr) == IF tr THEN "broadcast" ELSE "service"

\* the flag is never looked at
LoopExitsNever(d) == FALSE

\* while (!done)
LoopExits(d) == d

\* the client indicator is left on after a failed send
LedAfterSendKeep(led, ok) == led

\* set_client(false) after a failed send
LedAfterSend(led, ok) == IF ok THEN led ELSE FALSE

\* the replaced connection is not closed
AfterReplaceLeak(st) == st

\* if (s_client != -1) close(s_client);
AfterReplace(st) == "closed"

\* outcome of one clock_nanosleep result in sleep_until
sleep_outcome(result) ==
    IF result = -1 THEN "throw"
    ELSE IF result > 0 THEN "again"
    ELSE "return"

\* results clock_nanosleep may give: 0, EINTR (4) or another errno (EINVAL, 22)
SleepResults == {0, 4, 22}

\* the entry send_state adds to the history for one send() call
SendEntry(sc, ls, lv, ok, why) ==
    [to |-> sc, frame |-> Encode(ls, lv), ok |-> ok, tick |-> tick,
     why |-> why, after_close |-> peer[sc] = "shut"]

Max(a, b) == IF a >= b THEN a ELSE b

\* where update goes after check_for_clients
AfterService == IF current THEN "loop" ELSE "hold"

(* ------------------------------- Init --------------------------------- *)

Init ==
    /\ pc = "construct"
    /\ done = FALSE
    /\ timebase = 0
    /\ now = 0
    /\ last_stamp = 0
    /\ last_value = FALSE
    /\ s_listen = "none"
    /\ s_client = -1
    /\ h_gpio = "none"
    /\ led_client = FALSE
    /\ led_activity = FALSE
    /\ current = FALSE
    /\ backlog = << >>
    /\ conn = [c \in Conns |-> "unborn"]
    /\ peer = [c \in Conns |-> "open"]
    /\ peer_data = [c \in Conns |-> FALSE]
    /\ sends = << >>
    /\ tick = 0
    /\ t0 = 0
    /\ quiet = FALSE
    /\ half_closed = -1
    /\ ns_result = 0
    /\ err_lines = 0
    /\ exit_status = -1

(* ------------------------- leaving the program ------------------------ *)

\* ~State(), then the way out of main: `return 0` after the loop, or the
\* catch block (one LOG_ERR line) and the end of main, which returns 0 too
Unwind(errs) ==
    /\ led_client' = FALSE
    /\ led_activity' = FALSE
    /\ conn' = IF s_client # -1 THEN [conn EXCEPT ![s_client] = "closed"]
                                ELSE conn
    /\ s_listen' = "closed"
    /\ h_gpio' = "closed"
    /\ err_lines' = err_lines + errs
    /\ exit_status' = 0
    /\ pc' = "exited"

(* --------------------------- program steps ---------------------------- *)

\* State::State(): create_listener(), open_gpio(), the two indicator writes
construct ==
    /\ pc = "construct"
    /\ \E listener \in ListenerOutcomes, gpio_ok \in BOOLEAN :
          IF listener = "listening" /\ gpio_ok
          THEN /\ s_listen' = "open"
               /\ h_gpio' = "open"
               /\ pc' = "get_time"
               /\ UNCHANGED <<err_lines, exit_status>>
          ELSE \* the constructor throws: no State object, so no destructor;
               \* the catch block of main logs and main ends, returning 0
               /\ s_listen' = ListenerAfterThrow(listener)
               /\ h_gpio' = "none"
               /\ err_lines' = err_lines + 1
               /\ exit_status' = 0
               /\ pc' = "exited"
    /\ led_client' = FALSE
    /\ led_activity' = FALSE
    /\ UNCHANGED <<done, timebase, now, last_stamp, last_value, s_client,
                   current, backlog, conn, peer, peer_data, sends, tick, t0,
                   quiet>>
    /\ UNCHANGED half_closed
    /\ UNCHANGED ns_result

\* uint64_t timebase = get_time();
get_time ==
    /\ pc = "get_time"
    /\ \/ \E t \in InitialTimes :
             /\ timebase' = t
             /\ now' = t
             /\ t0' = t
             /\ pc' = "loop"
             /\ UNCHANGED <<led_client, led_activity, conn, s_listen, h_gpio,
                            err_lines, exit_status>>
       \/ \* clock_gettime fails: get_time throws
          /\ Unwind(1)
          /\ UNCHANGED <<timebase, now, t0>>
    /\ UNCHANGED <<done, last_stamp, last_value, s_client, current, backlog,
                   peer, peer_data, sends, tick, quiet>>
    /\ UNCHANGED half_closed
    /\ UNCHANGED ns_result

\* while (!done) { timebase += 50; ... }  and the exit after the loop
loop ==
    /\ pc = "loop"
    /\ IF LoopExits(done)
       THEN /\ Unwind(0)
            /\ UNCHANGED <<timebase, tick>>
       ELSE /\ tick < MaxTicks
            /\ timebase' = NextDeadline(timebase)
            /\ tick' = tick + 1
            /\ pc' = "sleep"
            /\ UNCHANGED <<led_client, led_activity, conn, s_listen, h_gpio,
                           err_lines, exit_status>>
    /\ UNCHANGED <<done, now, last_stamp, last_value, s_client, current,
                   backlog, peer, peer_data, sends, t0, quiet>>
    /\ UNCHANGED half_closed
    /\ UNCHANGED ns_result

\* sleep_until(deadline): one pass of its do-while per step.  On return
\* the thread goes to `after` with the busy indicator at `busy`.
sleep_until(deadline, after, busy) ==
    \E result \in SleepResults :
       CASE sleep_outcome(result) = "return" ->
              \E j \in Jitters :
                 /\ now' = Max(now, deadline) + j
                 /\ pc' = after
                 /\ led_activity' = busy
                 /\ ns_result' = result
                 /\ UNCHANGED <<led_client, conn, s_listen, h_gpio,
                                err_lines, exit_status>>
         [] sleep_outcome(result) = "again" ->
              /\ ns_result' = result
              /\ UNCHANGED <<now, pc, led_activity, led_client, conn,
                             s_listen, h_gpio, err_lines, exit_status>>
         [] sleep_outcome(result) = "throw" ->
              /\ Unwind(1)
              /\ ns_result' = result
              /\ UNCHANGED now

\* sleep_until(timebase) in main
sleep ==
    /\ pc = "sleep"
    /\ sleep_until(timebase, "update", led_activity)
    /\ UNCHANGED <<done, timebase, last_stamp, last_value, s_client, current,
                   backlog, peer, peer_data, sends, tick, t0, quiet>>
    /\ UNCHANGED half_closed

\* update, first part: set_activity(true), read_pin(), the transition test
\* and the two assignments
update ==
    /\ pc = "update"
    /\ \/ \E v \in BOOLEAN :
             /\ current' = v
             /\ quiet' = (v = last_value /\ last_stamp # 0)
             /\ led_activity' = TRUE
             /\ IF Transition(last_value, last_stamp, v)
                THEN /\ last_stamp' = StampRecorded(timebase)
                     /\ last_value' = v
                ELSE UNCHANGED <<last_stamp, last_value>>
             /\ pc' = AfterDetect(Transition(last_value, last_stamp, v))
             /\ UNCHANGED <<led_client, conn, s_listen, h_gpio, err_lines,
                            exit_status>>
       \/ \* ioctl(GPIOREAD) fails: read_pin throws
          /\ Unwind(1)
          /\ UNCHANGED <<current, quiet, last_stamp, last_value>>
    /\ UNCHANGED <<done, timebase, now, s_client, backlog, peer, peer_data,
                   sends, tick, t0>>
    /\ UNCHANGED half_closed
    /\ UNCHANGED ns_result

\* send_state(): at most one send() to the slot's occupant; a send that
\* does not return sizeof(buf) drops the client
send_state(why, after) ==
    /\ IF CanSend(s_client, last_stamp)
       THEN \E ok \in BOOLEAN :
               /\ sends' = Append(sends, SendEntry(s_client, last_stamp,
                                                   last_value, ok, why))
               /\ s_client' = SlotAfterSend(s_client, ok)
               /\ led_client' = LedAfterSend(led_client, ok)
               /\ conn' = IF ok THEN conn
                                ELSE [conn EXCEPT ![s_client] = "closed"]
       ELSE UNCHANGED <<sends, s_client, led_client, conn>>
    /\ pc' = after
    /\ UNCHANGED <<done, timebase, now, last_stamp, last_value, s_listen,
                   h_gpio, led_activity, current, backlog, peer, peer_data,
                   tick, t0, quiet, half_closed, ns_result, err_lines,
                   exit_status>>

\* update: send_state() after a transition
broadcast ==
    /\ pc = "broadcast"
    /\ send_state("transition", "service")

\* check_for_clients(), up to `s_client = s` on the accept branch, or the
\* whole poll/recv branch
service ==
    /\ pc = "service"
    /\ IF backlog # << >>
       THEN \* accept() returned Head(backlog)
            /\ led_client' = TRUE
            /\ conn' = [c \in Conns |->
                          IF c = Head(backlog) THEN "accepted"
                          ELSE IF c = s_client THEN AfterReplace(conn[c])
                          ELSE conn[c]]
            /\ s_client' = Occupant(s_client, Head(backlog))
            /\ backlog' = Tail(backlog)
            /\ pc' = "push"
       ELSE IF s_client # -1 /\ PeekSeesClose(s_client)
       THEN /\ conn' = [conn EXCEPT ![s_client] = "closed"]
            /\ s_client' = -1
            /\ led_client' = FALSE
            /\ pc' = AfterService
            /\ UNCHANGED backlog
       ELSE /\ pc' = AfterService
            /\ UNCHANGED <<conn, s_client, led_client, backlog>>
    /\ half_closed' = IF s_client # -1 /\ peer[s_client] # "open"
                          /\ ~peer_data[s_client]
                       THEN s_client ELSE -1
    /\ UNCHANGED <<done, timebase, now, last_stamp, last_value, s_listen,
                   h_gpio, led_activity, current, peer, peer_data, sends,
                   tick, t0, quiet, err_lines, exit_status>>
    /\ UNCHANGED ns_result

\* check_for_clients: send_state() to the connection just accepted
push ==
    /\ pc = "push"
    /\ send_state("connect", AfterService)

\* update: if (!current) { sleep_until(stamp + 20); set_activity(false); }
hold ==
    /\ pc = "hold"
    /\ sleep_until(timebase + HoldTime, "loop", FALSE)
    /\ UNCHANGED <<done, timebase, last_stamp, last_value, s_client, current,
                   backlog, peer, peer_data, sends, tick, t0, quiet>>
    /\ UNCHANGED half_closed

(* ---------------------------- environment ----------------------------- *)

Running == pc # "exited"

\* positions at which network events are taken
NetPoint == pc \in {"sleep", "service", "push"}

\* quit(int): SIGINT or SIGTERM is delivered
quit ==
    /\ Running
    /\ ~done
    /\ done' = TRUE
    /\ UNCHANGED <<pc, timebase, now, last_stamp, last_value, s_listen,
                   s_client, h_gpio, led_client, led_activity, current,
                   backlog, conn, peer, peer_data, sends, tick, t0, quiet,
                   err_lines, exit_status>>
    /\ UNCHANGED half_closed
    /\ UNCHANGED ns_result

\* a client connects: the connection waits in the accept queue
Connect ==
    /\ NetPoint
    /\ s_listen = "open"
    /\ Len(backlog) < Backlog
    /\ \E c \in Conns :
          /\ conn[c] = "unborn"
          /\ \A d \in Conns : d < c => conn[d] # "unborn"
          /\ conn' = [conn EXCEPT ![c] = "pending"]
          /\ backlog' = Append(backlog, c)
    /\ UNCHANGED <<pc, done, timebase, now, last_stamp, last_value, s_listen,
                   s_client, h_gpio, led_client, led_activity, current, peer,
                   peer_data, sends, tick, t0, quiet, err_lines, exit_status>>
    /\ UNCHANGED half_closed
    /\ UNCHANGED ns_result

\* a client closes its end in an orderly way: "shut_early" when the close
\* is there before check_for_clients has finished accepting the connection
\* (it came while the connection waited in the accept queue, or before the
\* push), "shut" when the client was attached
PeerClose ==
    /\ NetPoint
    /\ \E c \in Conns :
          /\ conn[c] = "accepted"
          /\ peer[c] = "open"
          /\ peer' = [peer EXCEPT ![c] = IF pc = "push" THEN "shut_early"
                                                        ELSE "shut"]
    /\ UNCHANGED <<pc, done, timebase, now, last_stamp, last_value, s_listen,
                   s_client, h_gpio, led_client, led_activity, current,
                   backlog, conn, peer_data, sends, tick, t0, quiet,
                   err_lines, exit_status>>
    /\ UNCHANGED half_closed
    /\ UNCHANGED ns_result

\* a client sends bytes; the server never reads them
PeerSend ==
    /\ NetPoint
    /\ \E c \in Conns :
          /\ conn[c] = "accepted"
          /\ peer[c] = "open"
          /\ ~peer_data[c]
          /\ peer_data' = [peer_data EXCEPT ![c] = TRUE]
    /\ UNCHANGED <<pc, done, timebase, now, last_stamp, last_value, s_listen,
                   s_client, h_gpio, led_client, led_activity, current,
                   backlog, conn, peer, sends, tick, t0, quiet, err_lines,
                   exit_status>>
    /\ UNCHANGED half_closed
    /\ UNCHANGED ns_result

(* --------------------------- specification ---------------------------- *)

Next ==
    \/ construct
    \/ get_time
    \/ loop
    \/ sleep
    \/ update
    \/ broadcast
    \/ service
    \/ push
    \/ hold
    \/ quit
    \/ Connect
    \/ PeerClose
    \/ PeerSend

Spec == Init /\ [][Next]_vars

(* ------------------ send_state on a range of timestamps --------------- *)

\* timestamps the wire format is exercised on (all below 2^31)
WireStamps ==
    (100..120) \cup {255, 256, 257, 1000, 1050, 4095, 65535, 65536, 65537,
                     16777215, 16777216, 16777217, 305419896, 2147483647}

\* The second tick has just recorded a transition at some timestamp while
\* client 1, accepted and sent the first record on the first tick, is
\* attached; the broadcast of the transition is about to be sent.
InitWire ==
    /\ pc = "broadcast"
    /\ done = FALSE
    /\ last_stamp \in WireStamps
    /\ last_value \in BOOLEAN
    /\ timebase = last_stamp
    /\ now = last_stamp
    /\ t0 = last_stamp - 2 * Period
    /\ tick = 2
    /\ s_listen = "open"
    /\ h_gpio = "open"
    /\ s_client = 1
    /\ led_client = TRUE
    /\ led_activity = TRUE
    /\ current = last_value
    /\ backlog = << >>
    /\ conn = [c \in Conns |-> IF c = 1 THEN "accepted" ELSE "unborn"]
    /\ peer = [c \in Conns |-> "open"]
    /\ peer_data = [c \in Conns |-> FALSE]
    /\ sends = << [to |-> 1, frame |-> Encode(last_stamp - Period, ~last_value),
                   ok |-> TRUE, tick |-> 1, why |-> "connect",
                   after_close |-> FALSE] >>
    /\ quiet = FALSE
    /\ half_closed = -1
    /\ ns_result = 0
    /\ err_lines = 0
    /\ exit_status = -1

NextWire == broadcast

SpecWire == InitWire /\ [][NextWire]_vars

(* ----------------------- vocabulary of the claims --------------------- *)

\* byte of weight 256^e of a 64-bit value (values here are below 2^32)
BigEndianByte(x, e) == IF e >= 4 THEN 0 ELSE (x \div (256 ^ e)) % 256

\* the 12-byte WireRecord of a (since, value) pair
WireRecord(since, value) ==
    << BigEndianByte(since, 7), BigEndianByte(since, 6),
       BigEndianByte(since, 5), BigEndianByte(since, 4),
       BigEndianByte(since, 3), BigEndianByte(since, 2),
       BigEndianByte(since, 1), BigEndianByte(since, 0),
       0, 0, 0, IF value THEN 1 ELSE 0 >>

\* the send() calls made so far that satisfy a condition are counted by index
SendIndexes == 1..Len(sends)

\* a step in which send() was called
Sent == Len(sends') > Len(sends)

\* the record of the send() call made in this step
NewSend == sends'[Len(sends')]

\* the tick's processing is past check_for_clients
ServiceOver == pc \in {"hold", "loop"}

(* ------------------------------- claims ------------------------------- *)

\* C1 (bootstrap broadcast): when the first tick's processing is over and
\* connection 1 was accepted during it, exactly one send() was made to that
\* client in the tick, and its frame is the WireRecord of the first reading
\* and the first tick's deadline.
C1_BootstrapBroadcast ==
    (tick = 1 /\ ServiceOver /\ conn[1] \in {"accepted", "closed"}) =>
        /\ Cardinality({i \in SendIndexes : sends[i].to = 1}) = 1
        /\ \A i \in SendIndexes :
              /\ sends[i].to = 1
              /\ sends[i].tick = 1
              /\ sends[i].frame = WireRecord(timebase, current)

\* C1 witness: the first reading was "active", client 1 was accepted in the
\* first tick and its one record was delivered.
C1_Witness ==
    /\ tick = 1
    /\ pc = "loop"
    /\ current
    /\ s_client = 1
    /\ Len(sends) = 1
    /\ sends[1].ok
    /\ sends[1].frame = WireRecord(t0 + Period, TRUE)

\* C2 as stated (no spurious broadcasts): on a tick whose reading equals the
\* recorded value with since # 0, no send() is made at all.
C2_NoSendOnQuietTick ==
    quiet => \A i \in SendIndexes : sends[i].tick # tick

\* C2 amended: on such a tick no transition broadcast is sent; the only
\* send() is the push to a connection accepted on that tick, at most one.
C2_QuietTickSendsOnlyOnConnect ==
    quiet =>
        /\ \A i \in SendIndexes :
              sends[i].tick = tick => sends[i].why = "connect"
        /\ Cardinality({i \in SendIndexes : sends[i].tick = tick}) <= 1

\* C2 witness: a quiet second tick ends with a client attached and nothing
\* sent during it.
C2_Witness ==
    /\ tick = 2
    /\ ServiceOver
    /\ quiet
    /\ s_client # -1
    /\ \A i \in SendIndexes : sends[i].tick # 2

\* C3 (monotonic timestamps): no step stores a smaller value into
\* last_stamp than the one it replaces.
C3_MonotonicSince == [][last_stamp' >= last_stamp]_vars

\* C3 witness: the second tick's stamp has replaced the first tick's.
C3_Witness ==
    /\ tick = 2
    /\ pc = "broadcast"
    /\ last_stamp = t0 + 2 * Period

\* C4 (latest wins): a step that accepts B while A holds the slot closes A
\* and makes B the occupant; and every send() goes to the occupant of the
\* slot, which is an open accepted connection, so none goes to A afterwards.
C4_LatestWins ==
    [][ /\ (pc = "service" /\ pc' # pc /\ backlog # << >> /\ s_client # -1) =>
              /\ conn'[s_client] = "closed"
              /\ s_client' = Head(backlog)
              /\ conn'[Head(backlog)] = "accepted"
        /\ Sent => /\ NewSend.to = s_client
                   /\ conn[s_client] = "accepted"
      ]_vars

\* C4 witness: client 1 was replaced (it neither closed nor lost a send) and
\* a record has been sent to client 2 since.
C4_Witness ==
    /\ conn[1] = "closed"
    /\ peer[1] = "open"
    /\ \A i \in SendIndexes : sends[i].to = 1 => sends[i].ok
    /\ \E i \in SendIndexes : sends[i].to = 1
    /\ s_client = 2
    /\ \E i \in SendIndexes : sends[i].to = 2
    /\ Running

\* C5 as stated (half-close pruning): at the end of the service step that
\* meets the occupant closed by its peer the slot is empty, and no send() is
\* ever made to a connection after its attached client closed it.
C5_SlotEmptyAndNoSendAfterClose ==
    /\ (ServiceOver /\ half_closed # -1) => s_client = -1
    /\ \A i \in SendIndexes : ~sends[i].after_close

\* C5 amended: the service step that meets the occupant closed by its peer,
\* with no bytes queued, removes it from the slot and closes it (the slot is
\* then empty or holds a connection accepted in that step); a send() is made
\* only to the open occupant of the slot, so a send() after the peer's close
\* can happen before that service step and never after it.
C5_HalfClosePruned ==
    /\ [](((pc = "push" \/ ServiceOver) /\ half_closed # -1) =>
             /\ s_client # half_closed
             /\ conn[half_closed] = "closed")
    /\ [][Sent => /\ NewSend.to = s_client
                  /\ conn[NewSend.to] = "accepted"
                  /\ NewSend.to # half_closed
         ]_vars

\* C5 witness: client 1 closed while attached, the transition broadcast of
\* the next tick was still sent to it, and that tick's service step pruned
\* it, leaving the slot empty.
C5_Witness ==
    /\ ServiceOver
    /\ half_closed = 1
    /\ s_client = -1
    /\ backlog = << >>
    /\ \E i \in SendIndexes :
          /\ sends[i].to = 1
          /\ sends[i].after_close
          /\ sends[i].ok
          /\ sends[i].why = "transition"

\* C6 (drift-free scheduling): the deadline of the Nth tick is the time read
\* at start-up plus N periods, whatever the lateness of the waits.
C6_DriftFree == timebase = t0 + tick * Period

\* C6 witness: the second tick's wait begins after the first tick ran late
\* (a late wake-up followed by the in-tick wait and another late wake-up).
C6_Witness ==
    /\ tick = 2
    /\ pc = "sleep"
    /\ now = t0 + Period + HoldTime + MaxJitter

\* C7 (wire format): every frame sent is 12 bytes: the 64-bit since in
\* big-endian order, three zero bytes, and 1 or 0 for the value; since 1000
\* with value true is 00 00 00 00 00 00 03 E8 00 00 00 01.
C7_WireFormat ==
    \A i \in SendIndexes :
       LET since == IF sends[i].tick = tick THEN last_stamp
                                            ELSE last_stamp - Period
           value == IF sends[i].tick = tick THEN last_value ELSE ~last_value
       IN  /\ Len(sends[i].frame) = 12
           /\ sends[i].frame = WireRecord(since, value)
           /\ (since = 1000 /\ value) =>
                 sends[i].frame = <<0, 0, 0, 0, 0, 0, 3, 232, 0, 0, 0, 1>>

\* C7 witness: the transition to active at 1000 ms has been sent as
\* 00 00 00 00 00 00 03 E8 00 00 00 01.
C7_Witness ==
    /\ last_stamp = 1000
    /\ last_value
    /\ Len(sends) = 2
    /\ sends[2].frame = <<0, 0, 0, 0, 0, 0, 3, 232, 0, 0, 0, 1>>

\* C8 (no broadcast under the sentinel): no send() is made while
\* last_stamp = 0, and every frame sent carries a non-zero since.
C8_NoSendUnderSentinel ==
    /\ [](\A i \in SendIndexes :
             \E k \in 1..8 : sends[i].frame[k] # 0)
    /\ [][Sent => last_stamp # 0 /\ last_stamp' # 0]_vars

\* C8 witness: a client accepted on the very first tick has been sent a
\* record, and its since is the first stamp.
C8_Witness ==
    /\ tick = 1
    /\ Len(sends) = 1
    /\ sends[1].why = "connect"
    /\ sends[1].frame = WireRecord(last_stamp, last_value)
    /\ last_stamp # 0

\* the connection accepted by the service step just taken
NewClient == CHOOSE c \in Conns : conn[c] = "accepted"

\* C9 (push on connect): the step after an accept sends exactly one record,
\* the WireRecord of the current state, to the connection just accepted,
\* within the same tick.
C9_PushOnConnect ==
    [][(pc = "push" /\ pc' # pc /\ last_stamp # 0) =>
          /\ Len(sends') = Len(sends) + 1
          /\ NewSend.to = NewClient
          /\ NewSend.frame = WireRecord(last_stamp, last_value)
          /\ NewSend.why = "connect"
          /\ NewSend.tick = tick
          /\ tick' = tick
      ]_vars

\* C9 witness: client 2 replaced client 1 on the second tick and the push
\* went to client 2; client 1 got nothing on that tick.
C9_Witness ==
    /\ tick = 2
    /\ ServiceOver
    /\ s_client = 2
    /\ peer[1] = "open"
    /\ \E i \in SendIndexes : sends[i].to = 1 /\ sends[i].ok
    /\ \A i \in SendIndexes : sends[i].tick = 2 =>
          /\ sends[i].to = 2
          /\ sends[i].why = "connect"
          /\ sends[i].ok
    /\ \E i \in SendIndexes : sends[i].tick = 2

\* C10 (failed send drops the client, no retry): a step whose send() fails
\* makes that one call only, writes the client indicator off, closes the
\* connection and empties the slot, and the loop goes on; no later send()
\* goes to a connection on which a send() failed.
C10_FailedSendDrops ==
    /\ [][(Sent /\ ~NewSend.ok) =>
             /\ Len(sends') = Len(sends) + 1
             /\ s_client' = -1
             /\ led_client' = FALSE
             /\ conn'[NewSend.to] = "closed"
             /\ pc' \in {"service", "hold", "loop"}
             /\ exit_status' = -1
         ]_vars
    /\ [](\A i, j \in SendIndexes :
             (i < j /\ ~sends[i].ok) => sends[j].to # sends[i].to)

\* C10 witness: the transition broadcast to client 1 failed on the second
\* tick, and the tick went on to its service step with the slot empty.
C10_Witness ==
    /\ tick = 2
    /\ pc = "service"
    /\ s_client = -1
    /\ ~led_client
    /\ Len(sends) = 2
    /\ sends[2].to = 1
    /\ sends[2].why = "transition"
    /\ ~sends[2].ok

\* C11 (busy indicator spans one tick's processing): the busy indicator is
\* on while a tick is being processed and off once the processing is over,
\* so it is off whenever the loop waits for the next tick's deadline.
C11_BusyOnlyDuringTick ==
    /\ pc \in {"broadcast", "service", "push", "hold"} => led_activity
    /\ pc \in {"loop", "sleep"} => ~led_activity

\* C12 (resources released on every exit path): when the process has left
\* the core, no handle that was opened is still open (each handle is
\* "none", or went from "open" to "closed" once).
C12_AllReleasedAtExit ==
    pc = "exited" =>
        /\ s_listen # "open"
        /\ h_gpio # "open"
        /\ \A c \in Conns : conn[c] # "accepted"

\* C13 (fatal error outcome): an exit without the shutdown flag is a fatal
\* one; every fatal exit has written exactly one error line and has a
\* non-zero status, and an exit with no error line is the normal shutdown,
\* with status 0.
C13_FatalExitStatus ==
    pc = "exited" =>
        /\ err_lines \in {0, 1}
        /\ ~done => err_lines = 1
        /\ err_lines = 1 => exit_status # 0
        /\ err_lines = 0 => (done /\ exit_status = 0)

\* C14 (sleep_until error handling): sleep_until returns only on result 0,
\* waits again for the same deadline on "interrupted" (EINTR, 4), and any
\* other result ends in the fatal exit instead of another wait.
C14_SleepErrorIsFatal ==
    /\ [](ns_result \notin {0, 4} => (pc = "exited" /\ err_lines = 1))
    /\ [][(pc \in {"sleep", "hold"} /\ pc' \notin {pc, "exited"}) =>
             ns_result' = 0]_vars
    /\ [][(pc \in {"sleep", "hold"} /\ ns_result' = 4) =>
             (pc' = pc /\ timebase' = timebase)]_vars

\* C15 as stated (tick ordering): the sensor read and every send() of a
\* tick come before its service step begins; no send() is made during or
\* after the service step.
C15_AllSendsBeforeService ==
    [][/\ Sent => pc = "broadcast"
       /\ (pc' = "service" /\ pc # "service") => pc \in {"update", "broadcast"}
      ]_vars

\* C15 amended: the sensor read and the transition broadcast of a tick come
\* before its service step begins (a recorded transition goes to the
\* broadcast, the service step is entered from the read or the broadcast
\* only); the one send() made during the service step is the push to the
\* connection that step has just accepted, and no send() is made after it.
C15_ReadAndBroadcastBeforeService ==
    [][/\ Sent => pc \in {"broadcast", "push"}
       /\ (Sent /\ pc = "broadcast") =>
             (NewSend.why = "transition" /\ pc' = "service")
       /\ (Sent /\ pc = "push") =>
             /\ NewSend.why = "connect"
             /\ NewSend.to = NewClient
             /\ pc' \in {"hold", "loop"}
       /\ (pc = "update" /\ last_stamp' # last_stamp) => pc' = "broadcast"
       /\ (pc' = "service" /\ pc # "service") => pc \in {"update", "broadcast"}
       /\ Sent => NewSend.tick = tick /\ tick' = tick
      ]_vars

\* C15 witness: on the second tick the transition was broadcast to client 1,
\* then the service step accepted client 2 and pushed the record to it.
C15_Witness ==
    /\ tick = 2
    /\ ServiceOver
    /\ Len(sends) = 3
    /\ sends[2].tick = 2
    /\ sends[2].why = "transition"
    /\ sends[2].to = 1
    /\ sends[3].tick = 2
    /\ sends[3].why = "connect"
    /\ sends[3].to = 2

\* C16 (client slot validity): while the program runs, s_client is -1 or a
\* connection that is accepted and open; every connection accepted so far
\* is the slot's occupant or has been closed, so at most one is open; and
\* the step that stores a newly accepted connection over an occupant has
\* closed that occupant.
C16_SlotValid ==
    /\ [](Running =>
            /\ s_client = -1 \/ conn[s_client] = "accepted"
            /\ \A c \in Conns : conn[c] = "accepted" => c = s_client
            /\ Cardinality({c \in Conns : conn[c] = "accepted"}) <= 1)
    /\ [][(pc = "service" /\ s_client # -1 /\ s_client' \notin {-1, s_client})
             => conn'[s_client] = "closed"]_vars

\* C16 witness: client 2 has replaced client 1, which was attached with
\* its end open and every send to it delivered, and is now closed.
C16_Witness ==
    /\ pc = "loop"
    /\ s_client = 2
    /\ conn[2] = "accepted"
    /\ conn[1] = "closed"
    /\ peer[1] = "open"
    /\ \A i \in SendIndexes : sends[i].ok

\* C17 (PumpState frame): last_value and last_stamp change only in the
\* read step of a tick, and only when the fresh reading differs from
\* last_value or last_stamp is 0; the new pair is the reading and the tick's
\* deadline.  Every other step (accept, replacement, peek, pruning, a send
\* that succeeds or fails, indicator writes, waits) leaves the pair alone,
\* and so does the read step of a tick with an equal reading and since # 0.
C17_PumpStateFrame ==
    [][/\ (last_value' # last_value \/ last_stamp' # last_stamp) =>
             /\ pc = "update"
             /\ current' # last_value \/ last_stamp = 0
             /\ last_value' = current'
             /\ last_stamp' = timebase
       /\ (pc = "update" /\ pc' \notin {"update", "exited"}
              /\ current' = last_value /\ last_stamp # 0) =>
             (last_value' = last_value /\ last_stamp' = last_stamp)
       /\ pc # "update" =>
             (last_value' = last_value /\ last_stamp' = last_stamp)
      ]_vars

\* C17 witness: the second tick read an equal value, accepted client 2 over
\* client 1 and failed to send to it; PumpState is still the first tick's.
C17_Witness ==
    /\ tick = 2
    /\ ServiceOver
    /\ quiet
    /\ last_stamp = t0 + Period
    /\ last_value = current
    /\ conn[1] = "closed"
    /\ conn[2] = "closed"
    /\ s_client = -1
    /\ Len(sends) = 2
    /\ ~sends[2].ok

\* how far a position is from the end of the process, along one tick
Rank(p) ==
    CASE p = "construct" -> 9
      [] p = "get_time" -> 8
      [] p = "sleep" -> 7
      [] p = "update" -> 6
      [] p = "broadcast" -> 5
      [] p = "service" -> 4
      [] p = "push" -> 3
      [] p = "hold" -> 2
      [] p = "loop" -> 1
      [] p = "exited" -> 0

\* positions inside a tick's processing
MidTick == {"update", "broadcast", "service", "push", "hold"}

\* C18 (shutdown): the process ends without an error line only from the loop
\* test between ticks, with the flag set; once the flag is set no new tick
\* is started, every step of the program moves on towards the exit (the
\* pending wait, the rest of the tick in progress, the loop test), and at
\* the loop test the exit can be taken; a tick in progress is left only by
\* a fatal error, never because of the flag; and the normal exit leaves the
\* indicators off, every handle closed and status 0.
C18_ShutdownBetweenTicks ==
    /\ [][(pc # "exited" /\ pc' = "exited" /\ err_lines' = err_lines) =>
             (pc = "loop" /\ done)]_vars
    /\ [][done => tick' = tick]_vars
    /\ [][(done /\ pc # "get_time") => timebase' = timebase]_vars
    /\ [][(done /\ pc' # pc) => Rank(pc') < Rank(pc)]_vars
    /\ [][(pc \in MidTick /\ pc' \notin MidTick \cup {"loop"}) =>
             (pc' = "exited" /\ err_lines' = err_lines + 1)]_vars
    /\ []((done /\ pc = "loop") => ENABLED loop)
    /\ []((pc = "exited" /\ err_lines = 0) =>
            /\ done
            /\ ~led_client
            /\ ~led_activity
            /\ s_listen = "closed"
            /\ h_gpio = "closed"
            /\ \A c \in Conns : conn[c] \in {"unborn", "pending", "closed"}
            /\ exit_status = 0)

\* C18 witness: the flag was set, the first tick ran to its end (the reading
\* was "inactive", so the hold wait was part of it) with client 1 attached
\* and sent its record, and the process has ended normally.
C18_Witness ==
    /\ pc = "exited"
    /\ done
    /\ err_lines = 0
    /\ tick = 1
    /\ ~current
    /\ now >= timebase + HoldTime
    /\ s_client = 1
    /\ conn[1] = "closed"
    /\ Len(sends) = 1
    /\ sends[1].ok

\* C19 (client-present indicator tracks the slot): while the program runs,
\* at the end of a tick in particular, the last level written to the
\* client-present indicator is "on" exactly when s_client # -1; when the
\* process has ended the indicator is off and no client connection is held.
C19_ClientLedTracksSlot ==
    /\ Running => (led_client <=> s_client # -1)
    /\ pc = "exited" =>
          /\ ~led_client
          /\ \A c \in Conns : conn[c] # "accepted"

\* C19 witness: on the second tick client 2 replaced client 1 and the push
\* to it failed; the tick's processing is over with the slot empty and the
\* indicator off.
C19_Witness ==
    /\ tick = 2
    /\ ServiceOver
    /\ s_client = -1
    /\ ~led_client
    /\ conn[1] = "closed"
    /\ conn[2] = "closed"
    /\ Len(sends) > 0
    /\ sends[Len(sends)].to = 2
    /\ sends[Len(sends)].why = "connect"
    /\ ~sends[Len(sends)].ok

\* the `since` field of a frame (timestamps here are below 2^32, so it is
\* carried by bytes 5..8 and bytes 1..4 are 0)
FrameSince(f) == ((f[5] * 256 + f[6]) * 256 + f[7]) * 256 + f[8]

\* the `value` field of a frame
FrameValue(f) == f[12]

\* the send() calls made to connection c, by index
SendsTo(c) == {i \in SendIndexes : sends[i].to = c}

\* the last send() call made to connection c
LastSendTo(c) == CHOOSE i \in SendsTo(c) : \A j \in SendsTo(c) : j <= i

\* C20 (attached client is up to date): when a tick's processing is over
\* and the slot holds a client, every send() to that client succeeded and
\* the last one carried the current PumpState; a transition recorded while
\* a client is attached is sent to it in the same tick; and of two
\* successive records on one connection the later has a strictly larger
\* since and the other value.
C20_AttachedClientUpToDate ==
    /\ []((ServiceOver /\ s_client # -1) =>
            /\ SendsTo(s_client) # {}
            /\ \A i \in SendsTo(s_client) : sends[i].ok
            /\ sends[LastSendTo(s_client)].frame =
                  WireRecord(last_stamp, last_value))
    /\ [][(pc = "broadcast" /\ pc' # pc /\ s_client # -1) =>
             /\ Sent
             /\ NewSend.to = s_client
             /\ NewSend.frame = WireRecord(last_stamp, last_value)
             /\ NewSend.tick = tick]_vars
    /\ [](\A i, j \in SendIndexes :
            (/\ i < j
             /\ sends[i].to = sends[j].to
             /\ \A k \in SendIndexes :
                   (i < k /\ k < j) => sends[k].to # sends[i].to) =>
               /\ FrameSince(sends[j].frame) > FrameSince(sends[i].frame)
               /\ FrameValue(sends[j].frame) # FrameValue(sends[i].frame))

\* C20 witness: client 1 was sent the first tick's record when it connected
\* and the transition of the second tick, and is attached at the end of the
\* second tick.
C20_Witness ==
    /\ tick = 2
    /\ ServiceOver
    /\ s_client = 1
    /\ Len(sends) = 2
    /\ sends[1].to = 1
    /\ sends[1].ok
    /\ sends[1].frame = WireRecord(t0 + Period, ~last_value)
    /\ sends[2].to = 1
    /\ sends[2].ok
    /\ sends[2].why = "transition"
    /\ sends[2].frame = WireRecord(t0 + 2 * Period, last_value)

=============================================================================
